---- MODULE Spec2Model ----
(***************************************************************************)
(* Model of src/solver.py: the Solver class (knowledge base, candidate     *)
(* filtering and weighting, guess selection) and its two solve loops,      *)
(* solve_word (evaluation by comparison with a known word) and             *)
(* solve_wordle (evaluation read from the tiles of an external game).      *)
(*                                                                         *)
(* A word is a sequence of one-letter strings.  Positions are 0..4 as in   *)
(* the source; position i of a word w is w[i + 1].                         *)
(***************************************************************************)
EXTENDS Integers, Sequences, FiniteSets, TLC

VARIABLES mode, auto, word, correct_letters, present_letters, absent_letters,
          words, guess_count, guess, pc, answer, last, contradictions, rejects

vars == << mode, auto, word, correct_letters, present_letters, absent_letters,
           words, guess_count, guess, pc, answer, last, contradictions,
               rejects >>

kb == << correct_letters, present_letters, absent_letters >>

(***************************************************************************)
(* Program constants.                                                      *)
(***************************************************************************)
WordLen == 5

MaxGuesses == 6

None == "None"

\* the answer of a loop that returned none (line 155; solve_word falls off its
\* loop): the empty word, which no joined five letters equal
NoAnswer == << >>

Pos == 0 .. (WordLen - 1)

(***************************************************************************)
(* Bounds of the model: how many lines of words.txt are loaded, how many   *)
(* target words, typed inputs and contradicting hidden words are tried,    *)
(* and how many rows of the external game may be irregular in one run     *)
(* (a row that contradicts the hidden word, or a row of a rejected guess). *)
(***************************************************************************)
DictSize == 4

NumTargets == 3

NumInputs == 4

NumDecoys == 1

MaxIrregular == 1

WordsFile ==
  << << "t", "a", "b", "l", "e" >>,
     << "l", "l", "a", "m", "a" >>,
     << "o", "t", "h", "e", "r" >>,
     << "a", "n", "g", "l", "e" >>,
     << "u", "n", "c", "l", "e" >>,
     << "a", "n", "k", "l", "e" >> >>

TargetList ==
  << << "t", "a", "b", "l", "e" >>,
     << "e", "l", "b", "o", "w" >>,
     << "l", "l", "a", "m", "a" >>,
     << "a", "n", "g", "l", "e" >> >>

InputList ==
  << << "l", "l", "a", "m", "a" >>,
     << "a", "n" >>,
     << "e", "a", "g", "l", "e" >>,
     << "a", "n", "g", "l", "e", "s" >>,
     << >>,
     << "t", "a", "b", "l", "e" >> >>

DecoyList ==
  << << "p", "l", "a", "z", "a" >>,
     << "a", "n", "g", "l", "e" >>,
     << "e", "l", "b", "o", "w" >> >>

Least(a, b) == IF a < b THEN a ELSE b

Prefix(list, n) == SubSeq(list, 1, Least(n, Len(list)))

Range(s) == { s[k] : k \in 1 .. Len(s) }

Dictionary == Prefix(WordsFile, DictSize)

Targets == Range(Prefix(TargetList, NumTargets))

ManualInputs == Range(Prefix(InputList, NumInputs))

Decoys == Range(Prefix(DecoyList, NumDecoys))

Letters ==
  UNION { Range(w) : w \in Range(WordsFile) \cup Range(TargetList)
                           \cup Range(InputList) \cup Range(DecoyList) }

(***************************************************************************)
(* Levenshtein.distance: insertions, deletions and substitutions at unit   *)
(* cost, computed row by row.  A row holds the distances of a prefix of s  *)
(* to every prefix of t; entry j + 1 is the distance to the first j        *)
(* letters of t.                                                           *)
(***************************************************************************)
Min3(a, b, c) == Least(a, Least(b, c))

RECURSIVE LevRow(_, _, _, _, _)
LevRow(prev, ch, t, j, acc) ==
  IF j > Len(t) THEN acc
  ELSE LET cost == IF ch = t[j] THEN 0 ELSE 1
           v == Min3(prev[j + 1] + 1, acc[j] + 1, prev[j] + cost)
       IN  LevRow(prev, ch, t, j + 1, Append(acc, v))

RECURSIVE LevRows(_, _, _, _)
LevRows(prev, s, t, i) ==
  IF i > Len(s) THEN prev[Len(t) + 1]
  ELSE LevRows(LevRow(prev, s[i], t, 1, << prev[1] + 1 >>), s, t, i + 1)

Distance(s, t) == LevRows([j \in 1 .. (Len(t) + 1) |-> j - 1], s, t, 1)

(***************************************************************************)
(* Solver.get_word_weight.                                                 *)
(***************************************************************************)
PaddedPattern(correct) ==
  [k \in 1 .. WordLen |-> IF correct[k] = None THEN "0" ELSE correct[k]]

PresentKeys(present) == { c \in Letters : present[c] # {} }

get_word_weight_penalised(w, correct, present) ==
  Distance(w, PaddedPattern(correct))
    + Cardinality({ c \in PresentKeys(present) : c \in Range(w) })

get_word_weight(w, correct, present) ==
  Distance(w, PaddedPattern(correct))
    - Cardinality({ c \in PresentKeys(present) : c \in Range(w) })

(***************************************************************************)
(* The sort of self.words by weight (list.sort is stable).                 *)
(***************************************************************************)
RECURSIVE InsertByWeight(_, _)
InsertByWeight(sorted, e) ==
  IF sorted = << >> THEN << e >>
  ELSE IF sorted[Len(sorted)][2] <= e[2] THEN Append(sorted, e)
  ELSE Append(InsertByWeight(SubSeq(sorted, 1, Len(sorted) - 1), e),
              sorted[Len(sorted)])

RECURSIVE SortFrom(_, _, _)
SortFrom(list, k, acc) ==
  IF k > Len(list) THEN acc
  ELSE SortFrom(list, k + 1, InsertByWeight(acc, list[k]))

SortByWeight(list) == SortFrom(list, 1, << >>)

(***************************************************************************)
(* Solver.update_word_weights: the pattern, the filter and the sort.       *)
(***************************************************************************)
Exclude_everywhere(i, present, absent) == PresentKeys(present) \cup absent

Exclude(i, present, absent) ==
  { c \in PresentKeys(present) : i \in present[c] } \cup absent

PatternMatches(w, correct, present, absent) ==
  /\ Len(w) >= WordLen
  /\ \A i \in Pos :
       IF correct[i + 1] # None
       THEN w[i + 1] = correct[i + 1]
       ELSE w[i + 1] \notin Exclude(i, present, absent)

Reweigh(list, correct, present) ==
  [k \in 1 .. Len(list) |->
     << list[k][1], get_word_weight(list[k][1], correct, present) >>]

KeepMatching_nothing_dropped(list, correct, present, absent) == list

KeepMatching(list, correct, present, absent) ==
  SelectSeq(list, LAMBDA e : PatternMatches(e[1], correct, present, absent))

update_word_weights_from_dictionary(list, correct, present, absent) ==
  SortByWeight(Reweigh(KeepMatching([k \in 1 .. Len(Dictionary) |->
                                       << Dictionary[k], 0 >>],
                                    correct, present, absent),
                       correct, present))

update_word_weights(list, correct, present, absent) ==
  SortByWeight(Reweigh(KeepMatching(list, correct, present, absent),
                       correct, present))

(***************************************************************************)
(* Solver.get_min_weight_count, for a non-empty list.                      *)
(***************************************************************************)
SetMin(S) == CHOOSE x \in S : \A y \in S : x <= y

get_min_weight_count(list) ==
  LET greater == { k \in 1 .. Len(list) : list[k][2] > list[1][2] }
      idx == IF greater = {} THEN Len(list) - 1 ELSE SetMin(greater) - 1
  IN  (IF idx = 0 THEN 0 ELSE idx) + 1

(***************************************************************************)
(* The evaluation of one tile, as both loops record it.                    *)
(***************************************************************************)
Missing == "missing"

Tags == { "correct", "present", "absent" }

RecordTile(k, i, ch, tag) ==
  IF tag = "correct"
  THEN [k EXCEPT !.correct[i + 1] = ch]
  ELSE IF tag = "present"
  THEN [k EXCEPT !.present[ch] = @ \cup { i }]
  ELSE [k EXCEPT !.absent = @ \cup { ch }]

(***************************************************************************)
(* solve_word, lines 117-123: the comparison with the known word.          *)
(***************************************************************************)
CompareTile_no_presence_test(g, w, i) ==
  IF g[i + 1] = w[i + 1] THEN "correct" ELSE "absent"

CompareTile_membership_first(g, w, i) ==
  IF g[i + 1] \in Range(w) THEN "correct" ELSE "absent"

CompareTile(g, w, i) ==
  IF g[i + 1] = w[i + 1] THEN "correct"
  ELSE IF g[i + 1] \in Range(w) THEN "present"
  ELSE "absent"

RECURSIVE CompareAll(_, _, _, _)
CompareAll(k, g, w, i) ==
  IF i >= WordLen THEN k
  ELSE CompareAll(RecordTile(k, i, g[i + 1], CompareTile(g, w, i)), g, w, i + 1)

(***************************************************************************)
(* solve_wordle, lines 179-195: the tiles of the row are read in order;    *)
(* the first tile without an evaluation ends the reading.                  *)
(***************************************************************************)
FirstMissing(row) ==
  IF \E i \in Pos : row[i + 1] = Missing
  THEN SetMin({ i \in Pos : row[i + 1] = Missing })
  ELSE WordLen

RECURSIVE ReadAll(_, _, _, _)
ReadAll(k, g, row, i) ==
  IF i >= WordLen \/ row[i + 1] = Missing THEN k
  ELSE ReadAll(RecordTile(k, i, g[i + 1], row[i + 1]), g, row, i + 1)

(***************************************************************************)
(* The external game.  The rows it shows for a five-letter guess are those *)
(* of the game's rule for a hidden word (exact matches first, then each    *)
(* remaining occurrence of a letter is present while the hidden word has   *)
(* occurrences left, absent otherwise), or a row that lacks the evaluation *)
(* from some tile on.  The hidden word is `word` or, for feedback that     *)
(* contradicts earlier rows, one of Decoys; contradictions counts the rows *)
(* that disagree with `word`, rejects the rejected guesses.                *)
(***************************************************************************)
Count(w, ch, S) == Cardinality({ i \in S : w[i + 1] = ch })

GameTile(g, s, i) ==
  LET ch == g[i + 1]
      exact == { j \in Pos : g[j + 1] = s[j + 1] }
      left == Count(s, ch, Pos \ exact)
      before == Count(g, ch, (0 .. (i - 1)) \ exact)
  IN  IF i \in exact THEN "correct"
      ELSE IF before < left THEN "present"
      ELSE "absent"

GameRow(g, s) == [k \in 1 .. WordLen |-> GameTile(g, s, k - 1)]

CutRow(row, n) == [k \in 1 .. WordLen |-> IF k > n THEN Missing ELSE row[k]]

GameRows(g) ==
  { GameRow(g, s) : s \in { word } \cup Decoys }
    \cup { CutRow(GameRow(g, word), n) : n \in 0 .. WordLen }

Agrees(row, g) ==
  \A i \in Pos : i < FirstMissing(row) => row[i + 1] = GameRow(g, word)[i + 1]

(***************************************************************************)
(* Solver.__init__ and the start of a solve loop.                          *)
(***************************************************************************)
InitialWords ==
  SortByWeight([k \in 1 .. Len(Dictionary) |->
     << Dictionary[k],
        get_word_weight(Dictionary[k], [i \in 1 .. WordLen |-> None],
                        [c \in Letters |-> {}]) >>])

Init ==
  /\ mode \in { "solve_word", "solve_wordle" }
  /\ auto \in BOOLEAN
  /\ word \in Targets
  /\ correct_letters = [i \in 1 .. WordLen |-> None]
  /\ present_letters = [c \in Letters |-> {}]
  /\ absent_letters = {}
  /\ words = InitialWords
  /\ guess_count = 0
  /\ guess = << >>
  /\ pc = "prompt"
  /\ answer = NoAnswer
  /\ last = "init"
  /\ contradictions = 0
  /\ rejects = 0

(***************************************************************************)
(* The head of the loop body, lines 103-114 and 157-168: the guess is "0"  *)
(* (always in automatic mode, on request otherwise), a typed word, or is   *)
(* refused.                                                                *)
(***************************************************************************)
consistent == contradictions = 0

AllSet(correct) == \A i \in Pos : correct[i + 1] # None

InWords(g) == FALSE

Refused_short_only(g) == Len(g) < WordLen /\ ~ InWords(g)

Refused(g) == Len(g) # WordLen /\ ~ InWords(g)

AutoGuess ==
  /\ pc = "prompt"
  /\ LET ws == update_word_weights(words, correct_letters, present_letters,
                                   absent_letters)
     IN  /\ ws # << >>
         /\ words' = ws
         /\ \E k \in 1 .. get_min_weight_count(ws) : guess' = ws[k][1]
  /\ pc' = "evaluate"
  /\ last' = "auto"
  /\ UNCHANGED << mode, auto, word, kb, guess_count, answer, contradictions,
               rejects >>

NoWordsLeft_swallowed ==
  /\ pc = "prompt"
  /\ LET ws == update_word_weights(words, correct_letters, present_letters,
                                   absent_letters)
     IN  /\ ws = << >>
         /\ words' = ws
  /\ pc' = IF guess_count + 1 < MaxGuesses THEN "prompt" ELSE "Exhausted"
  /\ guess_count' = guess_count + 1
  /\ last' = "auto"
  /\ UNCHANGED << mode, auto, word, kb, guess, answer, contradictions, rejects >>

NoWordsLeft ==
  /\ pc = "prompt"
  /\ LET ws == update_word_weights(words, correct_letters, present_letters,
                                   absent_letters)
     IN  /\ ws = << >>
         /\ words' = ws
  /\ pc' = "IndexError"
  /\ last' = "auto"
  /\ UNCHANGED << mode, auto, word, kb, guess_count, guess, answer, contradictions,
               rejects >>

ManualGuess ==
  /\ pc = "prompt"
  /\ ~ auto
  /\ \E g \in ManualInputs :
       /\ ~ Refused(g)
       /\ guess' = g
  /\ pc' = "evaluate"
  /\ last' = "manual"
  /\ UNCHANGED << mode, auto, word, kb, words, guess_count, answer, contradictions,
               rejects >>

InvalidGuess ==
  /\ pc = "prompt"
  /\ ~ auto
  /\ \E g \in ManualInputs :
       /\ Refused(g)
       /\ guess' = g
  /\ pc' = "prompt"
  /\ last' = "invalid"
  /\ UNCHANGED << mode, auto, word, kb, words, guess_count, answer, contradictions,
               rejects >>

(***************************************************************************)
(* The tail of the loop body, lines 129-134 and 201-206.                   *)
(***************************************************************************)
Accept_one_more_guess(k) ==
  /\ correct_letters' = k.correct
  /\ present_letters' = k.present
  /\ absent_letters' = k.absent
  /\ guess_count' = guess_count + 1
  /\ last' = "accepted"
  /\ IF AllSet(k.correct)
     THEN pc' = "Solved" /\ answer' = k.correct
     ELSE /\ answer' = answer
          /\ pc' = IF guess_count + 1 <= MaxGuesses THEN "prompt" ELSE "Exhausted"

Accept_stale_test(k) ==
  /\ correct_letters' = k.correct
  /\ present_letters' = k.present
  /\ absent_letters' = k.absent
  /\ guess_count' = guess_count + 1
  /\ last' = "accepted"
  /\ IF AllSet(correct_letters)
     THEN pc' = "Solved" /\ answer' = k.correct
     ELSE /\ answer' = answer
          /\ pc' = IF guess_count + 1 < MaxGuesses THEN "prompt" ELSE "Exhausted"

Accept_retried(k) ==
  /\ last' = "accepted"
  /\ pc' = "prompt"
  /\ UNCHANGED << kb, guess_count, answer >>

Accept(k) ==
  /\ correct_letters' = k.correct
  /\ present_letters' = k.present
  /\ absent_letters' = k.absent
  /\ guess_count' = guess_count + 1
  /\ last' = "accepted"
  /\ IF AllSet(k.correct)
     THEN pc' = "Solved" /\ answer' = k.correct
     ELSE /\ answer' = answer
          /\ pc' = IF guess_count + 1 < MaxGuesses THEN "prompt" ELSE "Exhausted"

KB == [correct |-> correct_letters, present |-> present_letters,
       absent |-> absent_letters]

CompareWord ==
  /\ pc = "evaluate"
  /\ mode = "solve_word"
  /\ Accept(CompareAll(KB, guess, word, 0))
  /\ UNCHANGED << mode, auto, word, words, guess, contradictions,
               rejects >>

ReadTiles_counts_rejected ==
  /\ pc = "evaluate"
  /\ mode = "solve_wordle"
  /\ \E row \in GameRows(guess) :
       /\ (Agrees(row, guess) /\ FirstMissing(row) = WordLen)
            \/ contradictions + rejects < MaxIrregular
       /\ contradictions' = contradictions + IF Agrees(row, guess) THEN 0 ELSE 1
       /\ rejects' = rejects + IF FirstMissing(row) < WordLen THEN 1 ELSE 0
       /\ IF FirstMissing(row) < WordLen
          THEN LET k == ReadAll(KB, guess, row, 0)
               IN  /\ correct_letters' = k.correct
                   /\ present_letters' = k.present
                   /\ absent_letters' = k.absent
                   /\ last' = "rejected"
                   /\ pc' = "prompt"
                   /\ guess_count' = guess_count + 1
                   /\ UNCHANGED answer
          ELSE Accept(ReadAll(KB, guess, row, 0))
  /\ UNCHANGED << mode, auto, word, words, guess >>

ReadTiles ==
  /\ pc = "evaluate"
  /\ mode = "solve_wordle"
  /\ \E row \in GameRows(guess) :
       /\ (Agrees(row, guess) /\ FirstMissing(row) = WordLen)
            \/ contradictions + rejects < MaxIrregular
       /\ contradictions' = contradictions + IF Agrees(row, guess) THEN 0 ELSE 1
       /\ rejects' = rejects + IF FirstMissing(row) < WordLen THEN 1 ELSE 0
       /\ IF FirstMissing(row) < WordLen
          THEN LET k == ReadAll(KB, guess, row, 0)
               IN  /\ correct_letters' = k.correct
                   /\ present_letters' = k.present
                   /\ absent_letters' = k.absent
                   /\ last' = "rejected"
                   /\ pc' = "prompt"
                   /\ UNCHANGED << guess_count, answer >>
          ELSE Accept(ReadAll(KB, guess, row, 0))
  /\ UNCHANGED << mode, auto, word, words, guess >>

Next ==
  \/ AutoGuess
  \/ NoWordsLeft
  \/ ManualGuess
  \/ InvalidGuess
  \/ CompareWord
  \/ ReadTiles

Spec == Init /\ [][Next]_vars

(***************************************************************************)
(* Vocabulary of the properties.                                           *)
(***************************************************************************)
CandSet(list) == { list[k][1] : k \in 1 .. Len(list) }

InDictionary(w) == w \in Range(Dictionary)

JustFiltered == last = "auto" /\ pc \in { "evaluate", "IndexError" }

FromFullDictionary ==
  update_word_weights(InitialWords, correct_letters, present_letters,
                      absent_letters)

(***************************************************************************)
(* C1: in both solve loops a position of correct_letters that holds a      *)
(* letter is never cleared nor given a different letter by a later step.   *)
(***************************************************************************)
C1_ConfirmedNeverChanges ==
  [][\A i \in Pos :
       correct_letters[i + 1] # None
         => correct_letters'[i + 1] = correct_letters[i + 1]]_vars

(***************************************************************************)
(* C2: the word an automatic guess draws has the least weight of the       *)
(* candidate list: the slice words[:get_min_weight_count()] holds only     *)
(* entries whose weight equals the weight of the first entry.              *)
(***************************************************************************)
C2_GuessHasMinWeight ==
  (pc = "evaluate" /\ last = "auto")
    => /\ \A k \in 1 .. Len(words) :
            words[k][1] = guess => words[k][2] = words[1][2]
       /\ \A k \in 1 .. get_min_weight_count(words) :
            words[k][2] = words[1][2]

(***************************************************************************)
(* C3: filtering is monotone: the candidates left by a call of             *)
(* update_word_weights are among the candidates the list held before it.   *)
(***************************************************************************)
C3_FilterMonotone == [][CandSet(words') \subseteq CandSet(words)]_vars

C3_Witness ==
  /\ JustFiltered
  /\ guess_count >= 2
  /\ words # << >>
  /\ Len(words) < Len(Dictionary) - 1

(***************************************************************************)
(* C4: after every filtering step the candidate list holds the words and   *)
(* weights that filtering the full dictionary with the current knowledge   *)
(* would give.                                                             *)
(***************************************************************************)
C4_SameAsFullRecompute ==
  JustFiltered => Range(words) = Range(FromFullDictionary)

(***************************************************************************)
(* C5: while every recorded evaluation agrees with the hidden word and the *)
(* hidden word is in the dictionary, the candidate list keeps the hidden   *)
(* word and an automatic guess never finds the list empty.                 *)
(***************************************************************************)
C5_TargetSurvives ==
  (consistent /\ InDictionary(word))
    => (word \in CandSet(words) /\ pc # "IndexError")

(***************************************************************************)
(* C6: when an automatic guess is requested and filtering leaves no        *)
(* candidate, the step ends the loop with IndexError: no guess is made,    *)
(* the knowledge base and the guess counter keep their values, and no step *)
(* follows.                                                                *)
(***************************************************************************)
C6_EmptyListRaises ==
  [][/\ pc # "IndexError"
     /\ (pc = "prompt" /\ last' = "auto" /\ words' = << >>)
          => (pc' = "IndexError" /\ UNCHANGED << kb, guess_count, guess >>)]_vars

C6_Witness == pc = "IndexError" /\ words = << >> /\ guess_count >= 1

(***************************************************************************)
(* C7, as claimed: in solve_word six accepted guesses without all          *)
(* positions confirmed end the loop in Exhausted with no answer, and no    *)
(* run of the loop ends by raising an error.                               *)
(***************************************************************************)
C7_NeverRaises ==
  mode = "solve_word"
    => /\ (guess_count = MaxGuesses /\ ~ AllSet(correct_letters))
            => (pc = "Exhausted" /\ answer = NoAnswer)
       /\ pc # "IndexError"

(***************************************************************************)
(* C7, amended: in solve_word six accepted guesses without all positions   *)
(* confirmed end the loop in Exhausted with no answer; a run ends by       *)
(* raising only when an automatic guess finds the candidate list empty,    *)
(* and then the target word is not in the dictionary.                      *)
(***************************************************************************)
C7_ExhaustedOrEmptyList ==
  mode = "solve_word"
    => /\ (guess_count = MaxGuesses /\ ~ AllSet(correct_letters))
            => (pc = "Exhausted" /\ answer = NoAnswer)
       /\ pc = "IndexError"
            => (last = "auto" /\ words = << >> /\ ~ InDictionary(word))

C7_Witness ==
  /\ mode = "solve_word"
  /\ pc = "Exhausted"
  /\ guess_count = MaxGuesses
  /\ ~ AllSet(correct_letters)
  /\ \E i \in Pos : correct_letters[i + 1] # None

(***************************************************************************)
(* C8: a step ends the loop in Solved exactly when it records an accepted  *)
(* guess and leaves all five positions of correct_letters set; the answer  *)
(* is then correct_letters in position order; no step follows Solved.      *)
(***************************************************************************)
C8_SolvedIffAllSet ==
  [][/\ pc' = "Solved"
          <=> (pc = "evaluate" /\ last' = "accepted"
                 /\ AllSet(correct_letters'))
     /\ pc' = "Solved" => answer' = correct_letters'
     /\ pc # "Solved"]_vars

C8_Witness ==
  /\ pc = "Solved"
  /\ AllSet(correct_letters)
  /\ answer = correct_letters
  /\ guess_count >= 2

(***************************************************************************)
(* C9: in solve_wordle a guess the game does not accept (some tile of the  *)
(* row has no evaluation) leaves correct_letters, present_letters,         *)
(* absent_letters and guess_count as they were, and the loop prompts again.*)
(***************************************************************************)
C9_RejectedRecordsNothing ==
  [][(pc = "evaluate" /\ last' = "rejected")
       => (UNCHANGED << kb, guess_count >> /\ pc' = "prompt")]_vars

(***************************************************************************)
(* C10: a typed guess whose length is not 5 is refused before any          *)
(* evaluation: knowledge base, candidate list and guess_count keep their   *)
(* values and the loop prompts again for the same guess number.            *)
(***************************************************************************)
C10_WrongLengthRefused ==
  [][(pc = "prompt" /\ last' \in { "manual", "invalid" }
        /\ Len(guess') # WordLen)
       => (UNCHANGED << kb, words, guess_count >> /\ pc' = "prompt")]_vars

C10_Witness ==
  /\ last = "invalid"
  /\ Len(guess) # WordLen
  /\ pc = "prompt"
  /\ guess_count >= 1

(***************************************************************************)
(* C11: in solve_word the weight of the target word is at most the weight  *)
(* of every five-letter word that differs from correct_letters at a        *)
(* position that is set.                                                   *)
(***************************************************************************)
FiveLetterWords ==
  { w \in Range(WordsFile) \cup Range(TargetList) \cup Range(InputList)
            \cup Range(DecoyList) : Len(w) = WordLen }

ViolatesConfirmed(w) ==
  \E i \in Pos : correct_letters[i + 1] # None
                   /\ w[i + 1] # correct_letters[i + 1]

WeightNow(w) == get_word_weight(w, correct_letters, present_letters)

C11_TargetNotHeavier ==
  mode = "solve_word"
    => \A w \in FiveLetterWords :
         ViolatesConfirmed(w) => WeightNow(word) <= WeightNow(w)

C11_Witness ==
  /\ mode = "solve_word"
  /\ PresentKeys(present_letters) # {}
  /\ ~ AllSet(correct_letters)
  /\ \E w \in FiveLetterWords :
       /\ ViolatesConfirmed(w)
       /\ PresentKeys(present_letters) \cap Range(w) # {}
       /\ WeightNow(w) = WeightNow(word) + 1

(***************************************************************************)
(* C12: in solve_word the knowledge base is consistent after any sequence  *)
(* of guesses: no letter of absent_letters is a confirmed letter or a key  *)
(* of present_letters, and no position holds a confirmed letter that       *)
(* present_letters excludes there.                                         *)
(***************************************************************************)
ConfirmedLetters == { correct_letters[k] : k \in 1 .. WordLen } \ { None }

C12_KnowledgeConsistent ==
  mode = "solve_word"
    => /\ absent_letters \cap ConfirmedLetters = {}
       /\ absent_letters \cap PresentKeys(present_letters) = {}
       /\ \A i \in Pos :
            correct_letters[i + 1] # None
              => i \notin present_letters[correct_letters[i + 1]]

C12_Witness ==
  /\ mode = "solve_word"
  /\ absent_letters # {}
  /\ \E c \in ConfirmedLetters : Cardinality(present_letters[c]) >= 2

(***************************************************************************)
(* C13: guess_count starts at 0, never decreases, grows by one exactly in  *)
(* the steps that accept a guess (a rejected or refused guess leaves it),  *)
(* never exceeds 6; an accepted guess that does not solve leads to         *)
(* Exhausted iff it was the sixth and to the prompt otherwise; each        *)
(* increment records one evaluation, the whole row of the guess.           *)
(***************************************************************************)
KBAfter == [correct |-> correct_letters', present |-> present_letters',
            absent |-> absent_letters']

RecordedOneRow ==
  IF mode = "solve_word"
  THEN KBAfter = CompareAll(KB, guess, word, 0)
  ELSE \E s \in { word } \cup Decoys :
         KBAfter = ReadAll(KB, guess, GameRow(guess, s), 0)

C13_CounterStateMachine ==
  /\ guess_count = 0
  /\ [][/\ guess_count' \in { guess_count, guess_count + 1 }
        /\ guess_count' <= MaxGuesses
        /\ guess_count' = guess_count + 1
             <=> (pc = "evaluate" /\ last' = "accepted")
        /\ last' \in { "rejected", "invalid" } => guess_count' = guess_count
        /\ (pc = "evaluate" /\ last' = "accepted"
              /\ ~ AllSet(correct_letters'))
             => pc' = IF guess_count + 1 = MaxGuesses
                      THEN "Exhausted" ELSE "prompt"
        /\ guess_count' = guess_count + 1 => RecordedOneRow]_vars

C13_Witness ==
  /\ mode = "solve_wordle"
  /\ pc = "Exhausted"
  /\ guess_count = MaxGuesses
  /\ rejects >= 1
  /\ last = "accepted"

(***************************************************************************)
(* The loops on their own in automatic mode, with a game that may refuse   *)
(* a submitted word as a whole any number of times: the first tile has no  *)
(* evaluation (lines 180-188), nothing is recorded and the loop goes on    *)
(* (line 201).  The interpreter keeps executing the loop: every iteration  *)
(* step leaves the prompt or the evaluation it is at, so a run that is at  *)
(* one of them does not stop there (weak fairness of LoopStep).            *)
(***************************************************************************)
RejectGuess ==
  /\ pc = "evaluate"
  /\ mode = "solve_wordle"
  /\ FirstMissing(CutRow(GameRow(guess, word), 0)) = 0
  /\ pc' = "prompt"
  /\ last' = "rejected"
  /\ UNCHANGED << mode, auto, word, kb, words, guess_count, guess, answer,
                  contradictions, rejects >>

InitLive == Init /\ auto

NextLive ==
  \/ AutoGuess
  \/ NoWordsLeft
  \/ CompareWord
  \/ ReadTiles
  \/ RejectGuess

Running == pc \in { "prompt", "evaluate" }

Ended == pc \in { "Solved", "Exhausted", "IndexError" }

LoopStep == Running /\ pc' \in ({ "prompt", "evaluate" } \cup { "Solved", "Exhausted", "IndexError" }) \ { pc }

SpecLive == InitLive /\ [][NextLive]_vars /\ WF_pc(LoopStep)

(***************************************************************************)
(* C14 as stated: in automatic mode every run of solve_word and of         *)
(* solve_wordle reaches Solved, Exhausted or the empty-list error after    *)
(* finitely many iterations, also when the game may reject a submitted     *)
(* guess.                                                                  *)
(***************************************************************************)
C14_AutoTerminates == auto => <>Ended

(***************************************************************************)
(* C14 amended: in automatic mode a run in which only finitely many        *)
(* guesses are rejected reaches Solved, Exhausted or the empty-list error; *)
(* that covers every run of solve_word, where nothing is rejected.         *)
(***************************************************************************)
C14_TerminatesUnlessRejectedForever ==
  auto => ([]<>(last = "rejected") \/ <>Ended)

C14_Witness ==
  /\ auto
  /\ mode = "solve_wordle"
  /\ pc = "Solved"
  /\ rejects >= 1
  /\ guess_count >= 2

(***************************************************************************)
(* C15: in solve_word with a target taken from the dictionary, every       *)
(* update_word_weights keeps the target in the candidate list, whatever    *)
(* 5-letter guesses were made, typed or automatic, with or without         *)
(* repeated letters in the guesses or the target; so an automatic guess    *)
(* never finds the list empty.                                             *)
(***************************************************************************)
C15_DictionaryTargetKept ==
  (mode = "solve_word" /\ InDictionary(word))
    => /\ word \in CandSet(words)
       /\ PatternMatches(word, correct_letters, present_letters,
                         absent_letters)
       /\ pc # "IndexError"

C15_Witness ==
  /\ mode = "solve_word"
  /\ InDictionary(word)
  /\ Cardinality(Range(word)) < WordLen
  /\ JustFiltered
  /\ guess_count >= 2
  /\ word \in CandSet(words)
  /\ Len(words) < Len(Dictionary)
  /\ absent_letters # {}
  /\ \E c \in Range(word) : Cardinality(present_letters[c]) >= 2

(***************************************************************************)
(* C16: in solve_word every position of correct_letters that is set holds  *)
(* the target's letter at that position, so an answer that is returned is  *)
(* the target; the test `answer == word` of the caller fails only for a    *)
(* loop that ended Exhausted.                                              *)
(***************************************************************************)
C16_AnswerIsTarget ==
  mode = "solve_word"
    => /\ \A i \in Pos :
            correct_letters[i + 1] # None => correct_letters[i + 1] = word[i + 1]
       /\ answer # NoAnswer => (pc = "Solved" /\ answer = word)
       /\ pc = "Solved" => answer = word
       /\ (pc \in { "Solved", "Exhausted" } /\ answer # word) => pc = "Exhausted"

C16_Witness ==
  /\ mode = "solve_word"
  /\ pc = "Solved"
  /\ answer = word
  /\ guess_count >= 3
  /\ absent_letters # {}
  /\ \E c \in Range(word) : present_letters[c] # {}

(***************************************************************************)
(* The filter of update_word_weights, read off the knowledge base: a word  *)
(* passes when it holds every confirmed letter at its position and, at the *)
(* other positions, no absent letter and no letter found present at that   *)
(* very position.                                                          *)
(***************************************************************************)
ConsistentWithKnowledge(w) ==
  \A i \in Pos :
    IF correct_letters[i + 1] # None
    THEN w[i + 1] = correct_letters[i + 1]
    ELSE /\ w[i + 1] \notin absent_letters
         /\ i \notin present_letters[w[i + 1]]

(***************************************************************************)
(* C17 as stated: in solve_word in automatic mode the update_word_weights  *)
(* of an iteration removes the word guessed before (which was not the      *)
(* target), so no word is guessed twice, and the word guessed next agrees  *)
(* with every evaluation recorded so far: besides passing the filter it    *)
(* contains every letter an evaluation found present.                      *)
(***************************************************************************)
C17_GuessAgreesWithEvaluations ==
  [][(auto /\ mode = "solve_word" /\ pc = "prompt")
       => /\ guess_count >= 1
               => (guess # word /\ guess \notin CandSet(words'))
          /\ pc' = "evaluate"
               => /\ guess' # guess
                  /\ ConsistentWithKnowledge(guess')
                  /\ PresentKeys(present_letters) \subseteq Range(guess')]_vars

(***************************************************************************)
(* C17 amended: in solve_word in automatic mode the update_word_weights of *)
(* an iteration removes the word guessed before (which was not the target) *)
(* and brings no word back, so the word guessed next is a different one    *)
(* and no word is guessed twice; the word guessed comes from the filtered  *)
(* list, so it passes the filter of the knowledge base.                    *)
(***************************************************************************)
C17_GuessedWordExcluded ==
  [][(auto /\ mode = "solve_word" /\ pc = "prompt")
       => /\ CandSet(words') \subseteq CandSet(words)
          /\ guess_count >= 1
               => (guess # word /\ guess \notin CandSet(words'))
          /\ pc' = "evaluate"
               => /\ guess' \in CandSet(words')
                  /\ guess' # guess
                  /\ ConsistentWithKnowledge(guess')]_vars

C17_Witness ==
  /\ auto
  /\ mode = "solve_word"
  /\ JustFiltered
  /\ pc = "evaluate"
  /\ guess_count >= 2
  /\ guess # word
  /\ absent_letters # {}
  /\ PresentKeys(present_letters) # {}
  /\ ~ (PresentKeys(present_letters) \subseteq Range(guess))

====
